---- MODULE Spec2Model ----
(***************************************************************************)
(* Model of the conversational input parser (src/spike/parser.py):         *)
(* the response decoder (_extract_json, _build_result, the ParseResult     *)
(* schema), the three provider adapters and the parse entry point.         *)
(*                                                                         *)
(* A text is a sequence of tokens.  Whitespace, the backtick and the JSON  *)
(* punctuation are one token per character; a JSON string literal and a    *)
(* JSON number literal are one token each (the code never looks inside     *)
(* one: strip, startswith, index and endswith can only stop at a character *)
(* outside a literal).                                                     *)
(***************************************************************************)
EXTENDS Integers, Sequences, FiniteSets, TLC

VARIABLES
    doc,      \* decoder harness: the JSON value the text was encoded from, or NoDoc
    text,     \* decoder harness: the raw completion text handed to the decoder
    tag,      \* decoder harness: the language tag of the fenced variant of text
    plain,    \* decoder harness: _build_result(text), or NoResult
    fenced,   \* decoder harness: _build_result(text wrapped in a fence), or NoResult
    env,      \* process-wide credential configuration (os.environ)
    envEdits, \* number of changes made to env so far
    calls     \* the parse invocations: position, locals, outcome

vars == <<doc, text, tag, plain, fenced, env, envEdits, calls>>

-----------------------------------------------------------------------------
(* Tokens                                                                  *)

Lit(c) == [k |-> "ch", c |-> c]
StrTok(s) == [k |-> "str", s |-> s]
\* f is "int" (30), "zero" (30.0) or "frac" (30.5)
NumTok(n, f) == [k |-> "num", n |-> n, f |-> f]

\* one backtick character
Tick == Lit("backtick")
NL == Lit("\n")
SP == Lit(" ")

IsWs(tok) == tok.k = "ch" /\ tok.c \in {" ", "\n"}

-----------------------------------------------------------------------------
(* JSON values, as json.loads builds them                                  *)

JNull == [t |-> "null"]
JBool(b) == [t |-> "bool", b |-> b]
JInt(n) == [t |-> "int", n |-> n]
JFloat(n, f) == [t |-> "float", n |-> n, f |-> f]
JStr(s) == [t |-> "str", s |-> s]
JList(items) == [t |-> "list", items |-> items]
\* a dict: a function from its keys to their values
JObj(m) == [t |-> "obj", m |-> m]
EmptyMap == [x \in {} |-> JNull]

-----------------------------------------------------------------------------
(* str methods used by _extract_json                                       *)

\* index of the first token that is not whitespace, Len(t) + 1 when there is none
FirstNonWs(t) ==
    IF \A i \in 1..Len(t) : IsWs(t[i]) THEN Len(t) + 1
    ELSE CHOOSE i \in 1..Len(t) : ~IsWs(t[i]) /\ \A j \in 1..(i - 1) : IsWs(t[j])

\* index of the last token that is not whitespace, 0 when there is none
LastNonWs(t) ==
    IF \A i \in 1..Len(t) : IsWs(t[i]) THEN 0
    ELSE CHOOSE i \in 1..Len(t) : ~IsWs(t[i]) /\ \A j \in (i + 1)..Len(t) : IsWs(t[j])

\* str.strip()
Strip(t) == SubSeq(t, FirstNonWs(t), LastNonWs(t))

\* text.startswith(FENCE), FENCE being three backticks
StartsWithFence(t) == Len(t) >= 3 /\ \A i \in 1..3 : t[i] = Tick

\* EndsWithFence, were the closing fence never recognised
EndsWithFenceNever(t) == FALSE

\* text.endswith(FENCE)
EndsWithFence(t) == Len(t) >= 3 /\ \A i \in (Len(t) - 2)..Len(t) : t[i] = Tick

HasNewline(t) == \E i \in 1..Len(t) : t[i] = NL

\* text.index("\n"), where HasNewline(t); str.index raises ValueError otherwise
IndexNewline(t) == CHOOSE i \in 1..Len(t) : t[i] = NL /\ \A j \in 1..(i - 1) : t[j] # NL

-----------------------------------------------------------------------------
(* json.loads: a recursive-descent parse of the token sequence             *)

\* first index >= i of a token that is not whitespace, Len(t) + 1 when none
SkipWs(t, i) ==
    IF \A j \in i..Len(t) : IsWs(t[j]) THEN Len(t) + 1
    ELSE CHOOSE j \in i..Len(t) : ~IsWs(t[j]) /\ \A l \in i..(j - 1) : IsWs(t[l])

\* a JSONDecodeError at position p
Fail(p) == [ok |-> FALSE, val |-> JNull, pos |-> p]
\* the value v, the parse having consumed the tokens before p
Ok(v, p) == [ok |-> TRUE, val |-> v, pos |-> p]

At(t, i, c) == i <= Len(t) /\ t[i] = Lit(c)

RECURSIVE ParseValue(_, _), ParseItems(_, _, _), ParseMembers(_, _, _)
RECURSIVE ItemsAfter(_, _, _), MemberValue(_, _, _, _), MembersAfter(_, _, _, _)

\* an array, j being the first token after its opening bracket
ArrayFrom(t, j) ==
    IF At(t, j, "]") THEN Ok(JList(<<>>), j + 1) ELSE ParseItems(t, j, <<>>)

\* an object, j being the first token after its opening brace
ObjectFrom(t, j) ==
    IF At(t, j, "}") THEN Ok(JObj(EmptyMap), j + 1) ELSE ParseMembers(t, j, EmptyMap)

\* a number literal: an int, or a float when it has a fractional part
Number(tok) == IF tok.f = "int" THEN JInt(tok.n) ELSE JFloat(tok.n, tok.f)

\* the JSON value that starts at token i (i is past any whitespace)
ParseValue(t, i) ==
    IF i > Len(t) THEN Fail(i)
    ELSE CASE t[i].k = "str" -> Ok(JStr(t[i].s), i + 1)
           [] t[i].k = "num" -> Ok(Number(t[i]), i + 1)
           [] t[i] = Lit("null") -> Ok(JNull, i + 1)
           [] t[i] = Lit("true") -> Ok(JBool(TRUE), i + 1)
           [] t[i] = Lit("false") -> Ok(JBool(FALSE), i + 1)
           [] t[i] = Lit("[") -> ArrayFrom(t, SkipWs(t, i + 1))
           [] t[i] = Lit("{") -> ObjectFrom(t, SkipWs(t, i + 1))
           [] OTHER -> Fail(i)

\* the rest of an array whose items so far are acc; an item must start at i
ParseItems(t, i, acc) == ItemsAfter(t, ParseValue(t, i), acc)

\* the array after the item r
ItemsAfter(t, r, acc) ==
    IF ~r.ok THEN r
    ELSE IF At(t, SkipWs(t, r.pos), ",")
         THEN ParseItems(t, SkipWs(t, SkipWs(t, r.pos) + 1), Append(acc, r.val))
    ELSE IF At(t, SkipWs(t, r.pos), "]")
         THEN Ok(JList(Append(acc, r.val)), SkipWs(t, r.pos) + 1)
    ELSE Fail(SkipWs(t, r.pos))

\* the rest of an object whose members so far are m; a key must start at i
ParseMembers(t, i, m) ==
    IF i > Len(t) \/ t[i].k # "str" THEN Fail(i)
    ELSE MemberValue(t, t[i].s, SkipWs(t, i + 1), m)

\* the member named key, c being the first token after the key
MemberValue(t, key, c, m) ==
    IF ~At(t, c, ":") THEN Fail(c)
    ELSE MembersAfter(t, ParseValue(t, SkipWs(t, c + 1)), m, key)

\* the object after the value r of the member named key.  A repeated key
\* keeps its last value.
MembersAfter(t, r, m, key) ==
    IF ~r.ok THEN r
    ELSE IF At(t, SkipWs(t, r.pos), ",")
         THEN ParseMembers(t, SkipWs(t, SkipWs(t, r.pos) + 1), (key :> r.val) @@ m)
    ELSE IF At(t, SkipWs(t, r.pos), "}")
         THEN Ok(JObj((key :> r.val) @@ m), SkipWs(t, r.pos) + 1)
    ELSE Fail(SkipWs(t, r.pos))

\* the end of the document: only whitespace may follow the value r
EndOfText(t, r) ==
    IF ~r.ok THEN r
    ELSE IF SkipWs(t, r.pos) <= Len(t) THEN Fail(SkipWs(t, r.pos))
    ELSE r

\* json.loads(text): one value, whitespace around it, nothing after it
JsonLoads(t) == EndOfText(t, ParseValue(t, SkipWs(t, 1)))

-----------------------------------------------------------------------------
(* json.dumps: the encoding the round trip is stated for                   *)

\* the order in which an object's keys are written
KeyOrder ==
    << "availability_windows", "duration_minutes", "title", "description",
       "name", "email", "phone", "missing_fields", "raw_model_output", "error",
       "start", "end", "timezone", "extra" >>

RECURSIVE Encode(_), EncodeItems(_), EncodeMembers(_, _, _)

Encode(v) ==
    CASE v.t = "null" -> <<Lit("null")>>
      [] v.t = "bool" -> <<Lit(IF v.b THEN "true" ELSE "false")>>
      [] v.t = "int" -> <<NumTok(v.n, "int")>>
      [] v.t = "float" -> <<NumTok(v.n, v.f)>>
      [] v.t = "str" -> <<StrTok(v.s)>>
      [] v.t = "list" -> <<Lit("[")>> \o EncodeItems(v.items) \o <<Lit("]")>>
      [] v.t = "obj" -> <<Lit("{")>> \o EncodeMembers(v.m, 1, TRUE) \o <<Lit("}")>>

EncodeItems(items) ==
    IF items = <<>> THEN <<>>
    ELSE Encode(Head(items))
         \o (IF Len(items) > 1 THEN <<Lit(","), SP>> ELSE <<>>)
         \o EncodeItems(Tail(items))

\* the members of m whose key is KeyOrder[i] or later; first: none written yet
EncodeMembers(m, i, first) ==
    IF i > Len(KeyOrder) THEN <<>>
    ELSE IF KeyOrder[i] \notin DOMAIN m THEN EncodeMembers(m, i + 1, first)
    ELSE (IF first THEN <<>> ELSE <<Lit(","), SP>>)
         \o <<StrTok(KeyOrder[i]), Lit(":"), SP>> \o Encode(m[KeyOrder[i]])
         \o EncodeMembers(m, i + 1, FALSE)

-----------------------------------------------------------------------------
(* The schema: AvailabilityWindow and ParseResult (pydantic models)        *)

\* A value of an Optional field is JNull or a tagged value; a list field is a
\* sequence.  raw_model_output holds a text.
JText(t) == [t |-> "text", toks |-> t]

\* the model built with no argument: every field at its default
ParseResultDefaults ==
    [ availability_windows |-> <<>>,
      duration_minutes |-> JNull,
      title |-> JNull,
      description |-> JNull,
      name |-> JNull,
      email |-> JNull,
      phone |-> JNull,
      missing_fields |-> <<>>,
      raw_model_output |-> JNull,
      error |-> JNull ]

\* a keyword argument that was not passed
Absent == [t |-> "absent"]
Arg(m, key) == IF key \in DOMAIN m THEN m[key] ELSE Absent

Valid(v) == [ok |-> TRUE, val |-> v]
Invalid == [ok |-> FALSE, val |-> JNull]

\* the decimal strings of the model, which the int validator converts
NumericStrings == ("30" :> 30) @@ ("0" :> 0) @@ ("-5" :> -5)

\* Optional[str] = None: a string or None; no other type is converted
OptStrField(v) ==
    CASE v.t = "absent" -> Valid(JNull)
      [] v.t \in {"null", "str"} -> Valid(v)
      [] OTHER -> Invalid

\* Optional[int] = None: an int or None; a bool, a float with no fractional
\* part and a decimal string are converted to the int they denote
OptIntField(v) ==
    CASE v.t = "absent" -> Valid(JNull)
      [] v.t \in {"null", "int"} -> Valid(v)
      [] v.t = "bool" -> Valid(JInt(IF v.b THEN 1 ELSE 0))
      [] v.t = "float" -> IF v.f = "zero" THEN Valid(JInt(v.n)) ELSE Invalid
      [] v.t = "str" ->
            IF v.s \in DOMAIN NumericStrings THEN Valid(JInt(NumericStrings[v.s]))
            ELSE Invalid
      [] OTHER -> Invalid

\* AvailabilityWindow(**item): start and end required strings, timezone
\* Optional[str] = None, other keys ignored
WindowOk(v) ==
    /\ v.t = "obj"
    /\ Arg(v.m, "start").t = "str"
    /\ Arg(v.m, "end").t = "str"
    /\ OptStrField(Arg(v.m, "timezone")).ok

\* Window, were the timezone of a window dropped
WindowWithoutTimezone(v) ==
    [start |-> v.m["start"].s, end |-> v.m["end"].s, timezone |-> JNull]

Window(v) ==
    [ start |-> v.m["start"].s,
      end |-> v.m["end"].s,
      timezone |-> OptStrField(Arg(v.m, "timezone")).val ]

\* list[AvailabilityWindow], default_factory=list
WindowsField(v) ==
    CASE v.t = "absent" -> Valid(<<>>)
      [] v.t = "list" ->
            IF \A i \in 1..Len(v.items) : WindowOk(v.items[i])
            THEN Valid([i \in 1..Len(v.items) |-> Window(v.items[i])])
            ELSE Invalid
      [] OTHER -> Invalid

\* StrListField, were the default the five required names instead of the empty list
StrListFieldDefaultAll(v) ==
    CASE v.t = "absent" -> Valid(<<"availability", "duration", "title", "name", "email">>)
      [] v.t = "list" ->
            IF \A i \in 1..Len(v.items) : v.items[i].t = "str"
            THEN Valid([i \in 1..Len(v.items) |-> v.items[i].s])
            ELSE Invalid
      [] OTHER -> Invalid

\* list[str], default_factory=list: any strings, the names are not checked
StrListField(v) ==
    CASE v.t = "absent" -> Valid(<<>>)
      [] v.t = "list" ->
            IF \A i \in 1..Len(v.items) : v.items[i].t = "str"
            THEN Valid([i \in 1..Len(v.items) |-> v.items[i].s])
            ELSE Invalid
      [] OTHER -> Invalid

\* the validated value of each field of ParseResult(**m)
Fields(m) ==
    [ availability_windows |-> WindowsField(Arg(m, "availability_windows")),
      duration_minutes |-> OptIntField(Arg(m, "duration_minutes")),
      title |-> OptStrField(Arg(m, "title")),
      description |-> OptStrField(Arg(m, "description")),
      name |-> OptStrField(Arg(m, "name")),
      email |-> OptStrField(Arg(m, "email")),
      phone |-> OptStrField(Arg(m, "phone")),
      missing_fields |-> StrListField(Arg(m, "missing_fields")),
      raw_model_output |-> OptStrField(Arg(m, "raw_model_output")),
      error |-> OptStrField(Arg(m, "error")) ]

FieldNames == DOMAIN ParseResultDefaults

\* the model of the validated fields f, or the ValidationError that names the
\* fields that failed
FromFields(f) ==
    IF \E n \in FieldNames : ~f[n].ok
    THEN [exc |-> "ValidationError", rec |-> ParseResultDefaults,
          bad |-> {n \in FieldNames : ~f[n].ok}]
    ELSE [exc |-> "none", rec |-> [n \in FieldNames |-> f[n].val], bad |-> {}]

\* ParseResult(**data): exc is "none" and rec the model, or exc names what was
\* raised: TypeError when data is not a mapping, ValidationError when a field
\* has a wrong type
NewParseResult(data) ==
    IF data.t # "obj" THEN [exc |-> "TypeError", rec |-> ParseResultDefaults, bad |-> {}]
    ELSE FromFields(Fields(data.m))

-----------------------------------------------------------------------------
(* Parsing helpers: _extract_json and _build_result                        *)

\* what json.loads came to: the value, or the JSONDecodeError
Loaded(r) ==
    [exc |-> IF r.ok THEN "none" ELSE "JSONDecodeError", val |-> r.val, pos |-> r.pos]

\* return json.loads(text)
Loads(t) == Loaded(JsonLoads(t))

\* the text after the opening fence line, without the closing fence if it
\* ends with one
CutClosingFence(rest) ==
    IF EndsWithFence(rest) THEN SubSeq(rest, 1, Len(rest) - 3) ELSE rest

\* _extract_json from its second line on, s being the stripped text
Unfence(s) ==
    IF StartsWithFence(s)
    THEN IF ~HasNewline(s) THEN [exc |-> "ValueError", val |-> JNull, pos |-> 0]
         ELSE Loads(Strip(CutClosingFence(SubSeq(s, IndexNewline(s) + 1, Len(s)))))
    ELSE Loads(s)

\* _extract_json(text)
ExtractJson(t) == Unfence(Strip(t))

\* the five names of the required fields, as both except branches list them
RequiredFields == <<"availability", "duration", "title", "name", "email">>

\* f"Failed to parse JSON: {exc}"
ParseErrorText(exc, pos) == [t |-> "str", s |-> "Failed to parse JSON", exc |-> exc, at |-> pos]
\* f"Failed to validate schema: {exc}"
SchemaErrorText(exc, bad) ==
    [t |-> "str", s |-> "Failed to validate schema", exc |-> exc, fields |-> bad]

\* ErrorResult, were the stripped text kept instead of the text received
ErrorResultStripped(raw, msg) ==
    [ParseResultDefaults EXCEPT !.raw_model_output = JText(Strip(raw)),
                                !.error = msg,
                                !.missing_fields = RequiredFields]

\* ParseResult(raw_model_output=raw, error=msg, missing_fields=[...five...])
ErrorResult(raw, msg) ==
    [ParseResultDefaults EXCEPT !.raw_model_output = JText(raw),
                                !.error = msg,
                                !.missing_fields = RequiredFields]

\* What a call comes to: it returns a value or an exception leaves it
Returned(rec) == [raised |-> "none", rec |-> rec]
Raised(exc) == [raised |-> exc]

\* the exception classes each exception of the model is an instance of
Bases(exc) ==
    CASE exc = "JSONDecodeError" -> {"JSONDecodeError", "ValueError", "Exception"}
      [] exc = "ValidationError" -> {"ValidationError", "ValueError", "Exception"}
      [] OTHER -> {exc, "Exception"}

\* ExtractHandled, were only json.JSONDecodeError named
ExtractHandledJsonOnly == {"JSONDecodeError"}

\* except (json.JSONDecodeError, ValueError) around _extract_json
ExtractHandled == {"JSONDecodeError", "ValueError"}
\* except Exception around ParseResult(**data)
SchemaHandled == {"Exception"}

\* the second try block of _build_result: r is what ParseResult(**data) came to
ValidatedResult(raw, r) ==
    IF r.exc = "none" THEN Returned([r.rec EXCEPT !.raw_model_output = JText(raw)])
    ELSE IF Bases(r.exc) \cap SchemaHandled # {}
         THEN Returned(ErrorResult(raw, SchemaErrorText(r.exc, r.bad)))
    ELSE Raised(r.exc)

\* _build_result after its first try block: x is what _extract_json came to
ExtractedResult(raw, x) ==
    IF x.exc = "none" THEN ValidatedResult(raw, NewParseResult(x.val))
    ELSE IF Bases(x.exc) \cap ExtractHandled # {}
         THEN Returned(ErrorResult(raw, ParseErrorText(x.exc, x.pos)))
    ELSE Raised(x.exc)

\* _build_result(raw)
BuildResult(raw) == ExtractedResult(raw, ExtractJson(raw))

-----------------------------------------------------------------------------
(* Provider adapters and the parse entry point                             *)

Providers == {"anthropic", "openai", "gemini"}
EnvNames == {"ANTHROPIC_API_KEY", "OPENAI_API_KEY", "GEMINI_API_KEY", "GOOGLE_API_KEY"}

\* the default reference date and timezone of parse, which run_spike passes too
ReferenceDt == "2026-01-30T10:00:00-05:00"
ReferenceTz == "America/New_York"
\* strftime("%A") of the reference dates of the model
DayOfWeek == (ReferenceDt :> "Friday")

\* build_system_prompt(reference_dt, reference_tz): the values the prompt states
BuildSystemPrompt(dt, tz) ==
    [reference_dt |-> dt, day_of_week |-> DayOfWeek[dt], reference_tz |-> tz]

\* Truthy, were the key compared with None only
TruthyNotNone(v) == v.t # "null"

\* bool(value) of a value read from the environment: None and "" are false
Truthy(v) == v.t = "str" /\ v.s # ""

\* the api_key each adapter reads: os.environ.get(NAME), and for gemini
\* os.environ.get("GEMINI_API_KEY") or os.environ.get("GOOGLE_API_KEY")
ApiKey(p, e) ==
    CASE p = "anthropic" -> e["ANTHROPIC_API_KEY"]
      [] p = "openai" -> e["OPENAI_API_KEY"]
      [] p = "gemini" ->
            IF Truthy(e["GEMINI_API_KEY"]) THEN e["GEMINI_API_KEY"]
            ELSE e["GOOGLE_API_KEY"]

\* the message of the record returned when the key is missing
NotSetText(p) ==
    CASE p = "anthropic" -> "ANTHROPIC_API_KEY not set"
      [] p = "openai" -> "OPENAI_API_KEY not set"
      [] p = "gemini" -> "GEMINI_API_KEY / GOOGLE_API_KEY not set"

\* ParseResult(error="... not set")
MissingCredentialResult(p) == [ParseResultDefaults EXCEPT !.error = JStr(NotSetText(p))]

-----------------------------------------------------------------------------
(* Bounds and the inputs drawn within them                                 *)

\* the longest availability_windows list of a generated payload
MaxWindows == 2
\* the most whitespace tokens put before and after a generated text
MaxPad == 1
\* the most changes made to the environment in one behaviour
MaxEnvEdits == 1

PayloadKeys ==
    { "availability_windows", "duration_minutes", "title", "description",
      "name", "email", "phone", "missing_fields" }
ScalarStrKeys == {"title", "description", "name", "email", "phone"}

\* the i-th window of a generated payload; every second one names its timezone
WindowAt(i) ==
    JObj([ start |-> JStr("2026-02-03T12:00:00-05:00"),
           end |-> JStr("2026-02-03T17:00:00-05:00"),
           timezone |-> IF i % 2 = 0 THEN JStr("America/Chicago") ELSE JNull ])

\* the value of key in a well-formed payload: profile "empty" has nothing
\* extracted (nulls, all five fields missing), profile "full" has everything
PayloadValue(key, profile, n) ==
    CASE key = "availability_windows" -> JList([i \in 1..n |-> WindowAt(i)])
      [] key = "duration_minutes" -> IF profile = "full" THEN JInt(30) ELSE JNull
      [] key = "missing_fields" ->
            IF profile = "full" THEN JList(<<>>)
            ELSE JList([i \in 1..Len(RequiredFields) |-> JStr(RequiredFields[i])])
      [] key = "title" -> IF profile = "full" THEN JStr("Q3 roadmap") ELSE JNull
      [] key = "description" -> IF profile = "full" THEN JStr("planning") ELSE JNull
      [] key = "name" -> IF profile = "full" THEN JStr("Jane") ELSE JNull
      [] key = "email" -> IF profile = "full" THEN JStr("jane@acme.com") ELSE JNull
      [] key = "phone" -> IF profile = "full" THEN JStr("555-0100") ELSE JNull

\* the well-formed payload holding the keys of S
Payload(S, profile, n) == JObj([key \in S |-> PayloadValue(key, profile, n)])

WellFormedDocs ==
    { Payload(S, profile, n) :
        S \in SUBSET PayloadKeys, profile \in {"empty", "full"}, n \in 0..MaxWindows }

FullPayload == Payload(PayloadKeys, "full", 1)

\* FullPayload with one key given another value, or one more key
With(key, v) == JObj((key :> v) @@ FullPayload.m)

\* objects the provider was told not to send
OddDocs ==
    { With("availability_windows", JNull),
      With("availability_windows", JObj(EmptyMap)),
      With("availability_windows", JList(<<JStr("tuesday")>>)),
      With("availability_windows", JList(<<JObj([start |-> JStr("2026-02-03T12:00:00-05:00")])>>)),
      With("availability_windows", JList(<<JObj([start |-> JInt(9), end |-> JInt(17)])>>)),
      With("availability_windows",
           JList(<<JObj([start |-> JStr("2026-02-03T17:00:00-05:00"),
                         end |-> JStr("2026-02-03T12:00:00-05:00")])>>)),
      With("duration_minutes", JStr("30")),
      With("duration_minutes", JStr("half an hour")),
      With("duration_minutes", JFloat(30, "zero")),
      With("duration_minutes", JFloat(30, "frac")),
      With("duration_minutes", JInt(0)),
      With("duration_minutes", JInt(-5)),
      With("duration_minutes", JBool(TRUE)),
      With("duration_minutes", JList(<<JInt(30)>>)),
      With("title", JInt(7)),
      With("name", JList(<<JStr("Jane")>>)),
      With("email", JBool(FALSE)),
      With("phone", JObj(EmptyMap)),
      With("missing_fields", JNull),
      With("missing_fields", JStr("name")),
      With("missing_fields", JList(<<JInt(1)>>)),
      With("missing_fields", JList(<<JStr("phone")>>)),
      With("missing_fields", JList(<<JStr("name"), JStr("phone")>>)),
      With("missing_fields", JList(<<JStr("budget")>>)),
      With("error", JStr("could not understand the input")),
      With("error", JNull),
      With("raw_model_output", JStr("scratch")),
      With("extra", JInt(1)),
      JObj(("error" :> JStr("could not understand the input"))) }

\* JSON documents that are not objects
NonObjectDocs ==
    { JList(<<>>), JList(<<JInt(1), JInt(2)>>), JList(<<FullPayload>>),
      JStr("I could not parse that"), JInt(30), JNull, JBool(TRUE) }

Docs == WellFormedDocs \cup OddDocs \cup NonObjectDocs

NoDoc == [t |-> "none"]
NoResult == [raised |-> "pending"]

Fence == <<Tick, Tick, Tick>>
\* the language tags of an opening fence line: none, or json
Tags == {<<>>, <<Lit("json")>>}

\* text inside a fenced block: opening marker line, text, closing marker line
Wrap(t, g) == Fence \o g \o <<NL>> \o t \o <<NL>> \o Fence

\* n whitespace tokens before t and n after it
Pad(t, n) == [i \in 1..n |-> SP] \o t \o [i \in 1..n |-> NL]

\* texts that are not the encoding of a document
OtherTexts ==
    { <<>>,
      <<SP, NL>>,
      <<Lit("{"), Lit("invalid")>>,
      <<Lit("{")>>,
      <<Lit("{"), Lit("}"), SP, Lit("{"), Lit("}")>>,
      <<Lit("["), NumTok(1, "int"), Lit(","), Lit("]")>>,
      <<Lit("{"), StrTok("title"), Lit(":"), Lit("}")>>,
      <<Lit("{"), StrTok("title"), StrTok("x"), Lit("}")>>,
      <<Lit("{"), StrTok("title"), Lit(":"), StrTok("a"), Lit(","),
        StrTok("title"), Lit(":"), StrTok("b"), Lit("}")>>,
      <<Lit("Here"), SP, Lit("is"), SP, Lit("the"), SP, Lit("JSON"), Lit(":"), NL>>
          \o Encode(FullPayload),
      Fence,
      Fence \o <<Lit("json")>>,
      Fence \o Encode(FullPayload) \o Fence,
      Fence \o <<Lit("json"), NL>> \o Encode(FullPayload),
      Fence \o <<Lit("json"), NL>>,
      Fence \o <<NL>> \o Fence,
      Encode(FullPayload) \o <<NL>> \o Fence,
      Wrap(Encode(FullPayload), <<>>) \o <<NL, Lit("Done"), Lit(".")>>,
      <<Tick, Tick>> \o Encode(FullPayload) }
    \cup { Wrap(Encode(d), g) :
             d \in {FullPayload, With("title", JInt(7)), JList(<<>>)}, g \in Tags }
    \cup { Wrap(<<Lit("{"), Lit("invalid")>>, g) : g \in Tags }
    \cup { Wrap(Fence, g) : g \in Tags }

\* the completion texts a provider answers with in the model
ProviderTexts ==
    { Encode(Payload({"duration_minutes", "title", "email"}, "full", 0)),
      Wrap(Encode(Payload({"availability_windows", "missing_fields"}, "empty", 0)),
           <<Lit("json")>>),
      <<Lit("{"), Lit("invalid")>>,
      Encode(JObj(("title" :> JInt(7)))),
      Encode(JObj(("missing_fields" :> JList(<<JStr("phone")>>)))),
      Encode(JObj(("error" :> JStr("could not understand the input")))) }

UserInputs == {"next Thursday works for me"}

\* os.environ: each name unset (None) or set, possibly to the empty string
EnvValues == {JNull, JStr(""), JStr("sk-1")}

Calls == {1, 2}

\* a parse call that has not been made
Idle ==
    [ pc |-> "idle", provider |-> "none", user_input |-> "", api_key |-> JNull,
      system |-> JNull, requests |-> 0, raw |-> JNull, out |-> NoResult ]

-----------------------------------------------------------------------------
(* The decoder on its own: one text, decoded as it is and inside a fence   *)

DecodeInit ==
    /\ \/ \E d \in Docs, n \in 0..MaxPad : doc = d /\ text = Pad(Encode(d), n)
       \/ \E t \in OtherTexts, n \in 0..MaxPad : doc = NoDoc /\ text = Pad(t, n)
    /\ tag \in Tags
    /\ plain = NoResult
    /\ fenced = NoResult
    /\ env = [n \in EnvNames |-> JNull]
    /\ envEdits = 0
    /\ calls = [c \in Calls |-> Idle]

\* _build_result(text)
DecodePlain ==
    /\ plain = NoResult
    /\ plain' = BuildResult(text)
    /\ UNCHANGED <<doc, text, tag, fenced, env, envEdits, calls>>

\* _build_result of the text inside a fenced block
DecodeFenced ==
    /\ fenced = NoResult
    /\ fenced' = BuildResult(Wrap(text, tag))
    /\ UNCHANGED <<doc, text, tag, plain, env, envEdits, calls>>

DecodeNext == DecodePlain \/ DecodeFenced

DecodeSpec == DecodeInit /\ [][DecodeNext]_vars

-----------------------------------------------------------------------------
(* parse calls against the providers, with the environment changing        *)

Init ==
    /\ doc = NoDoc
    /\ text = <<>>
    /\ tag = <<>>
    /\ plain = NoResult
    /\ fenced = NoResult
    /\ env \in [EnvNames -> {JNull, JStr("sk-1")}]
    /\ envEdits = 0
    /\ calls = [c \in Calls |-> Idle]

harness == <<doc, text, tag, plain, fenced>>

\* a variable of the environment is set, changed or removed
SetEnv(n, v) ==
    /\ envEdits < MaxEnvEdits
    /\ v # env[n]
    /\ env' = [env EXCEPT ![n] = v]
    /\ envEdits' = envEdits + 1
    /\ UNCHANGED <<harness, calls>>

\* parse(provider, user_input): fn = PROVIDER_FUNCTIONS[provider]; fn(...)
Parse(c, p, u) ==
    /\ calls[c].pc = "idle"
    /\ calls' = [calls EXCEPT ![c].pc = "credential", ![c].provider = p,
                              ![c].user_input = u]
    /\ UNCHANGED <<harness, env, envEdits>>

\* the call c after it read key: if not api_key: return ParseResult(error=...);
\* otherwise the client is constructed
AfterCredential(c, p, key) ==
    IF Truthy(key)
    THEN [calls EXCEPT ![c].pc = "compile", ![c].api_key = key]
    ELSE [calls EXCEPT ![c].pc = "done", ![c].api_key = key,
                       ![c].out = Returned(MissingCredentialResult(p))]

\* the key a module-wide cache would hand the call c: the one another call to
\* the provider p has read, if there is one
KeyOnceRead(c, p) ==
    IF \E d \in Calls \ {c} : calls[d].provider = p /\ calls[d].pc \notin {"idle", "credential"}
    THEN calls[CHOOSE d \in Calls \ {c} :
                  calls[d].provider = p /\ calls[d].pc \notin {"idle", "credential"}].api_key
    ELSE ApiKey(p, env)

\* ReadCredential, were the key read once and kept for later calls
ReadCredentialCached(c) ==
    /\ calls[c].pc = "credential"
    /\ calls' = AfterCredential(c, calls[c].provider, KeyOnceRead(c, calls[c].provider))
    /\ UNCHANGED <<harness, env, envEdits>>

\* api_key = os.environ.get(...) and the test that follows
ReadCredential(c) ==
    /\ calls[c].pc = "credential"
    /\ calls' = AfterCredential(c, calls[c].provider, ApiKey(calls[c].provider, env))
    /\ UNCHANGED <<harness, env, envEdits>>

\* system = build_system_prompt(reference_dt, reference_tz)
Compile(c) ==
    /\ calls[c].pc = "compile"
    /\ calls' = [calls EXCEPT ![c].pc = "send",
                              ![c].system = BuildSystemPrompt(ReferenceDt, ReferenceTz)]
    /\ UNCHANGED <<harness, env, envEdits>>

\* client.messages.create(...) and its like: the request leaves
SendRequest(c) ==
    /\ calls[c].pc = "send"
    /\ calls' = [calls EXCEPT ![c].pc = "wait", ![c].requests = @ + 1]
    /\ UNCHANGED <<harness, env, envEdits>>

\* the provider answers: raw = message.content[0].text
Respond(c, t) ==
    /\ calls[c].pc = "wait"
    /\ calls' = [calls EXCEPT ![c].pc = "decode", ![c].raw = JText(t)]
    /\ UNCHANGED <<harness, env, envEdits>>

\* RequestFails, were a failed request sent again
RequestFailsRetry(c) ==
    /\ calls[c].pc = "wait"
    /\ calls[c].requests < 3
    /\ calls' = [calls EXCEPT ![c].pc = "send"]
    /\ UNCHANGED <<harness, env, envEdits>>

\* the request fails: the SDK raises, and no handler surrounds the call
RequestFails(c) ==
    /\ calls[c].pc = "wait"
    /\ calls' = [calls EXCEPT ![c].pc = "raised", ![c].out = Raised("APIError")]
    /\ UNCHANGED <<harness, env, envEdits>>

\* the call c once _build_result came to r
AfterDecode(c, r) ==
    [calls EXCEPT ![c].pc = IF r.raised = "none" THEN "done" ELSE "raised", ![c].out = r]

\* return _build_result(raw)
Decode(c) ==
    /\ calls[c].pc = "decode"
    /\ calls' = AfterDecode(c, BuildResult(calls[c].raw.toks))
    /\ UNCHANGED <<harness, env, envEdits>>

Next ==
    \/ \E n \in EnvNames, v \in EnvValues : SetEnv(n, v)
    \/ \E c \in Calls, p \in Providers, u \in UserInputs : Parse(c, p, u)
    \/ \E c \in Calls : ReadCredential(c)
    \/ \E c \in Calls : Compile(c)
    \/ \E c \in Calls : SendRequest(c)
    \/ \E c \in Calls, t \in ProviderTexts : Respond(c, t)
    \/ \E c \in Calls : RequestFails(c)
    \/ \E c \in Calls : Decode(c)

Spec == Init /\ [][Next]_vars

-----------------------------------------------------------------------------
(* Properties                                                              *)

SeqRange(q) == {q[i] : i \in 1..Len(q)}

\* the required fields, as the data model names them
RequiredSet == {"availability", "duration", "title", "name", "email"}

\* x, what _extract_json came to, is a failure of the decoder
ExtractFails(x) == x.exc # "none" \/ NewParseResult(x.val).exc # "none"

\* the decoder fails on t: unwrapping, parsing or validation raises
DecodeFails(t) == ExtractFails(ExtractJson(t))

\* r is a record with error set
IsErrorRecord(r) == r.raised = "none" /\ r.rec.error # JNull

FullErrorRecord(r, t) ==
    /\ IsErrorRecord(r)
    /\ Len(r.rec.missing_fields) = 5
    /\ SeqRange(r.rec.missing_fields) = RequiredSet
    /\ r.rec.raw_model_output = JText(t)

\* C2: a text that is not valid JSON after unwrapping decodes to an error
\* record whose missing_fields is exactly the five required names and whose
\* raw_model_output is the text as it was received.
InvalidJsonGivesFullErrorRecord ==
    /\ (plain # NoResult /\ ExtractJson(text).exc # "none")
          => FullErrorRecord(plain, text)
    /\ (fenced # NoResult /\ ExtractJson(Wrap(text, tag)).exc # "none")
          => FullErrorRecord(fenced, Wrap(text, tag))

\* C2 witness: "{invalid" with whitespace around it was decoded, and the record
\* holds the text with its whitespace
PaddedInvalidDecoded ==
    /\ text = <<SP, Lit("{"), Lit("invalid"), NL>>
    /\ IsErrorRecord(plain)
    /\ plain.rec.raw_model_output = JText(text)

\* C3 as stated: every record returned with error set lists all five required
\* fields as missing.
ErrorRecordsListAllRequired ==
    \A c \in Calls :
        (calls[c].pc = "done" /\ calls[c].out.rec.error # JNull)
            => SeqRange(calls[c].out.rec.missing_fields) = RequiredSet

\* C4 as stated: phone is never listed in the missing_fields of a returned
\* record.
PhoneNeverMissing ==
    \A c \in Calls :
        calls[c].pc = "done" => "phone" \notin SeqRange(calls[c].out.rec.missing_fields)

\* C5 as stated: decoding a text inside a fenced block yields the record that
\* decoding the text itself yields.
FencedEqualsPlain ==
    (plain # NoResult /\ fenced # NoResult) => fenced = plain

\* the records agree on every field but raw_model_output
SameButRaw(a, b) == \A n \in FieldNames \ {"raw_model_output"} : a[n] = b[n]

\* C5 amended: for a text that does not itself start with a fence marker (once
\* stripped), decoding it inside a fenced block yields a record equal, in every
\* field but raw_model_output, to the one decoding the text itself yields;
\* raw_model_output is in each the text that call received.
FencedEqualsPlainButRaw ==
    (plain # NoResult /\ fenced # NoResult /\ ~StartsWithFence(Strip(text)))
        => /\ plain.raised = "none"
           /\ fenced.raised = "none"
           /\ SameButRaw(fenced.rec, plain.rec)
           /\ plain.rec.raw_model_output = JText(text)
           /\ fenced.rec.raw_model_output = JText(Wrap(text, tag))

\* C5 witness: a payload was decoded with and without a json-tagged fence and
\* both records carry its values
FencedPayloadDecoded ==
    /\ doc = FullPayload
    /\ tag = <<Lit("json")>>
    /\ plain # NoResult /\ fenced # NoResult
    /\ fenced.rec.error = JNull
    /\ fenced.rec.title = JStr("Q3 roadmap")

\* a key that is truthy, as the claims mean a credential that is present
KeyPresent(v) == v.t = "str" /\ v.s # ""

\* the call has read its credential
PastCredential(c) == calls[c].pc \notin {"idle", "credential"}

\* C6: a call whose provider's credential was absent (unset or empty) when the
\* adapter read it has returned a record with error set and no completion text,
\* and has made no outbound request.
AbsentCredentialMakesNoRequest ==
    \A c \in Calls :
        (PastCredential(c) /\ ~KeyPresent(calls[c].api_key))
            => /\ calls[c].requests = 0
               /\ calls[c].pc = "done"
               /\ IsErrorRecord(calls[c].out)
               /\ calls[c].out.rec.raw_model_output = JNull

\* C6 witness: a gemini call found neither of its two names set and returned
GeminiWithoutCredentialReturned ==
    \E c \in Calls :
        /\ calls[c].provider = "gemini"
        /\ calls[c].pc = "done"
        /\ calls[c].api_key = JNull
        /\ calls[c].requests = 0

\* C7 as stated: no exception leaves parse; every failure is a returned record.
NoExceptionLeavesParse ==
    \A c \in Calls : calls[c].pc # "raised"

\* a window of the output schema: start, end and a nullable timezone
ValidWindowValue(w) ==
    /\ w.t = "obj"
    /\ DOMAIN w.m = {"start", "end", "timezone"}
    /\ w.m["start"].t = "str"
    /\ w.m["end"].t = "str"
    /\ w.m["timezone"].t \in {"null", "str"}

\* a value the output schema allows for key
ValidPayloadValue(key, v) ==
    CASE key = "availability_windows" ->
            v.t = "list" /\ \A i \in 1..Len(v.items) : ValidWindowValue(v.items[i])
      [] key = "duration_minutes" -> v.t = "null" \/ (v.t = "int" /\ v.n > 0)
      [] key = "missing_fields" ->
            /\ v.t = "list"
            /\ \A i \in 1..Len(v.items) :
                  v.items[i].t = "str" /\ v.items[i].s \in RequiredSet
      [] OTHER -> v.t \in {"null", "str"}

\* a JSON object of the output schema: expected keys only, each well typed
ValidPayload(d) ==
    /\ d.t = "obj"
    /\ DOMAIN d.m \subseteq PayloadKeys
    /\ \A key \in DOMAIN d.m : ValidPayloadValue(key, d.m[key])

\* the value of a record field that holds the payload value v of key
PayloadField(key, v) ==
    CASE key = "availability_windows" ->
            [i \in 1..Len(v.items) |->
                [ start |-> v.items[i].m["start"].s,
                  end |-> v.items[i].m["end"].s,
                  timezone |-> v.items[i].m["timezone"] ]]
      [] key = "missing_fields" -> [i \in 1..Len(v.items) |-> v.items[i].s]
      [] OTHER -> v

\* C8: round trip: decoding the encoding of a valid payload that holds all
\* eight fields returns a record with no error in which each of the eight
\* fields has the payload's value.
RoundTrip ==
    (plain # NoResult /\ ValidPayload(doc) /\ DOMAIN doc.m = PayloadKeys)
        => /\ plain.raised = "none"
           /\ plain.rec.error = JNull
           /\ \A key \in PayloadKeys : plain.rec[key] = PayloadField(key, doc.m[key])

\* C8 witness: a payload with two windows, the second naming its timezone, went
\* through the round trip
TwoWindowPayloadDecoded ==
    /\ doc = Payload(PayloadKeys, "full", 2)
    /\ plain # NoResult
    /\ Len(plain.rec.availability_windows) = 2
    /\ plain.rec.availability_windows[2].timezone = JStr("America/Chicago")

\* the documented default of a field
DefaultOf(key) ==
    IF key \in {"availability_windows", "missing_fields"} THEN <<>> ELSE JNull

\* C9: decoding a JSON object that omits some of the expected keys returns a
\* record with no error in which every omitted key has its default (empty
\* window list, null scalar, empty missing_fields) and every present key has
\* the payload's value.
OmittedKeysTakeDefaults ==
    (plain # NoResult /\ ValidPayload(doc))
        => /\ plain.raised = "none"
           /\ plain.rec.error = JNull
           /\ \A key \in PayloadKeys \ DOMAIN doc.m : plain.rec[key] = DefaultOf(key)
           /\ \A key \in DOMAIN doc.m : plain.rec[key] = PayloadField(key, doc.m[key])

\* C9 witness: an object holding the title alone was decoded: the title is
\* kept and missing_fields is empty
TitleOnlyDecoded ==
    /\ doc = Payload({"title"}, "full", 0)
    /\ plain # NoResult
    /\ plain.rec.title = JStr("Q3 roadmap")
    /\ plain.rec.missing_fields = <<>>

\* the call is over: it returned or an exception left it
Over(c) == calls[c].pc \in {"done", "raised"}

\* C10: a parse call makes at most one outbound request, none before the
\* request is sent, and exactly one from then on, however the call ends
\* (request failure, malformed output, validation failure); a call that found
\* its credential and is over made exactly one.
OneRequestPerCall ==
    \A c \in Calls :
        /\ calls[c].requests <= 1
        /\ calls[c].pc \in {"wait", "decode"} => calls[c].requests = 1
        /\ (Over(c) /\ KeyPresent(calls[c].api_key)) => calls[c].requests = 1

\* C10 witness: a call whose completion did not parse returned an error record
\* after its one request
FailedDecodeAfterOneRequest ==
    \E c \in Calls :
        /\ calls[c].pc = "done"
        /\ calls[c].requests = 1
        /\ calls[c].out.rec.error # JNull
        /\ calls[c].out.rec.error.s = "Failed to parse JSON"

\* the adapter of the call c found no credential
CredentialMissing(c) == PastCredential(c) /\ ~KeyPresent(calls[c].api_key)

\* the request of the call c failed: the call is over, its request left and no
\* completion text came back
RequestFailed(c) == Over(c) /\ calls[c].requests > 0 /\ calls[c].raw = JNull

\* the decoder ran in the call c: the record the call returned holds the text
\* the decoder was handed
DecoderRan(c) ==
    /\ calls[c].pc = "done"
    /\ calls[c].out.rec.raw_model_output # JNull

\* the stages of the call c that ran did so in the order compilation, request,
\* decoding: no request before the instructions are compiled, no decoding
\* before the completion text is there
StagesInOrder(c) ==
    /\ calls[c].pc \in {"send", "wait", "decode"} => calls[c].system # JNull
    /\ calls[c].requests > 0 => calls[c].system # JNull
    /\ calls[c].raw # JNull => calls[c].requests > 0
    /\ calls[c].pc = "decode" => calls[c].raw # JNull
    /\ DecoderRan(c) =>
          /\ calls[c].raw # JNull
          /\ calls[c].out.rec.raw_model_output = calls[c].raw

\* the call c returned an error record that the decoder did not make
ShortCircuited(c) ==
    /\ calls[c].pc = "done"
    /\ IsErrorRecord(calls[c].out)
    /\ ~DecoderRan(c)

\* the part of C11 that holds: the stages run in order, the decoder runs only on
\* a completion text, a missing credential short-circuits to an error record
\* that names it, and the decoder never runs when the request failed.
StagesComposeInOrder ==
    \A c \in Calls :
        /\ StagesInOrder(c)
        /\ CredentialMissing(c) =>
              /\ ShortCircuited(c)
              /\ calls[c].out.rec.error = JStr(NotSetText(calls[c].provider))
        /\ RequestFailed(c) => ~DecoderRan(c)

\* C11 as stated: in every parse call the stages run in the order compilation,
\* provider invocation, decoding, the decoder runs only after the provider
\* returned completion text, and when the adapter yields a failure (missing
\* credential or failed request) parse returns an error record that carries the
\* failure's description, the decoder never invoked.
StagesComposeFailuresShortCircuit ==
    \A c \in Calls :
        /\ StagesInOrder(c)
        /\ (CredentialMissing(c) \/ RequestFailed(c)) => ShortCircuited(c)

\* a call whose request failed is over, with an exception and no record
RequestFailureLeftParse ==
    \E c \in Calls :
        /\ RequestFailed(c)
        /\ calls[c].pc = "raised"
        /\ calls[c].system # JNull

\* what a call that is over came to, from what the call record r holds of its
\* own: its provider, the key it read and the provider's answer to it
OutcomeOf(r) ==
    IF ~KeyPresent(r.api_key) THEN Returned(MissingCredentialResult(r.provider))
    ELSE IF r.raw = JNull THEN Raised("APIError")
    ELSE BuildResult(r.raw.toks)

\* one step, seen from the call c
IndependentStep(c) ==
    /\ (calls[c].pc = "credential" /\ calls'[c].pc # "credential")
          => calls'[c].api_key = ApiKey(calls[c].provider, env)
    /\ (~Over(c) /\ calls'[c].pc \in {"done", "raised"})
          => calls'[c].out = OutcomeOf(calls'[c])
    /\ Over(c) => calls'[c] = calls[c]
    /\ calls'[c] # calls[c] => \A d \in Calls \ {c} : calls'[d] = calls[d]

\* C12: parse is stateless under any interleaving of calls and changes of the
\* environment: the key a call reads is the one the environment holds at that
\* moment (never one an earlier call read), the result of a call is determined
\* by its own provider, the key it read and the provider's answer to it, a step
\* of one call leaves every other call as it was, and a result once produced
\* does not change.
CallsAreIndependent == [][\A c \in Calls : IndependentStep(c)]_vars

\* C12 witness: two calls to the same provider are over; the first found no
\* credential, the credential was set, and the second read it and returned a
\* decoded record
LaterCallSeesNewCredential ==
    /\ calls[1].pc = "done" /\ calls[2].pc = "done"
    /\ calls[1].provider = "openai" /\ calls[2].provider = "openai"
    /\ calls[1].api_key = JNull
    /\ calls[1].out.rec.error = JStr("OPENAI_API_KEY not set")
    /\ calls[2].api_key = JStr("sk-1")
    /\ env["OPENAI_API_KEY"] = JStr("sk-1")
    /\ calls[2].out.rec.error = JNull
    /\ calls[2].out.rec.raw_model_output # JNull

\* null or a positive integer
NullOrPositiveInt(v) == v = JNull \/ (v.t = "int" /\ v.n > 0)

\* the document that was encoded holds a duration_minutes
HasDuration == doc.t = "obj" /\ "duration_minutes" \in DOMAIN doc.m

\* r is the error record of a schema-validation failure
IsSchemaErrorRecord(r) ==
    /\ IsErrorRecord(r)
    /\ r.rec.error.s = "Failed to validate schema"

\* the part of C13 that holds: a duration_minutes that is a fractional number,
\* a string that is no decimal number, or a list is rejected as a
\* schema-validation error record naming the field.
NonNumericDurationRejected ==
    (plain # NoResult /\ HasDuration /\ ~OptIntField(doc.m["duration_minutes"]).ok)
        => /\ IsSchemaErrorRecord(plain)
           /\ "duration_minutes" \in plain.rec.error.fields

\* C13 as stated: in every record decode returns without an error,
\* duration_minutes is null or a positive integer, and a payload whose
\* duration_minutes is zero, negative or not an integer is rejected as a
\* schema-validation error record, never accepted or converted.
DurationNullOrPositiveInt ==
    plain # NoResult =>
        /\ (plain.raised = "none" /\ plain.rec.error = JNull)
              => NullOrPositiveInt(plain.rec.duration_minutes)
        /\ (HasDuration /\ ~NullOrPositiveInt(doc.m["duration_minutes"]))
              => IsSchemaErrorRecord(plain)

\* a payload whose duration_minutes is zero was decoded into a record with no
\* error and a duration of zero
ZeroDurationAccepted ==
    /\ doc = With("duration_minutes", JInt(0))
    /\ plain # NoResult
    /\ plain.rec.error = JNull
    /\ plain.rec.duration_minutes = JInt(0)

====
